---- MODULE Spec2Model ----
(***************************************************************************)
(* Model of vm/types.go: type variables, type operators, Root (path        *)
(* compressing resolution), Unify, FreshType and the occurs check.         *)
(*                                                                         *)
(* A Type value is a record [k, id, name, args]:                           *)
(*   k = "var"  a *TypeVariable, identified by its Id;                     *)
(*   k = "op"   a *TypeOperator with Name and Args (operators are          *)
(*              immutable and never compared by pointer, so they are       *)
(*              values);                                                   *)
(*   k = "nil"  the nil interface value / the nil *Type pointer.           *)
(* Instance[i] is the Instance field of the variable with Id i, Nil when   *)
(* the pointer is nil.  The id field is meaningful only when k = "var".    *)
(*                                                                         *)
(* nextVariableIdMu is the goroutine holding that mutex or "free";         *)
(* instanceMu[i] is the instanceMu of variable i; goroutine[g] is where    *)
(* goroutine g is in the call it is making; issued lists the ids read      *)
(* from the counter by the goroutines, in the order they were read.        *)
(***************************************************************************)
EXTENDS Naturals, Sequences, FiniteSets, TLC

VARIABLES nextVariableId, Instance, last, fresh, regex,
          nextVariableIdMu, instanceMu, goroutine, issued

vars == <<nextVariableId, Instance, last, fresh, regex,
          nextVariableIdMu, instanceMu, goroutine, issued>>

(* What the calls of the sequential inference pass leave alone: they take  *)
(* and release every lock within the call.                                 *)
elsewhere == <<regex, nextVariableIdMu, instanceMu, goroutine, issued>>

(***************************************************************************)
(* Bounds of the model.                                                    *)
(***************************************************************************)
MaxVars == 2

MaxIds == 2 * MaxVars

MaxCap == 2

(***************************************************************************)
(* Type values.                                                            *)
(***************************************************************************)
Nil == [k |-> "nil", id |-> 0, name |-> "", args |-> <<>>]

TypeVariable(i) == [k |-> "var", id |-> i, name |-> "", args |-> <<>>]

TypeOperator(n, as) == [k |-> "op", id |-> 0, name |-> n, args |-> as]

Function(as) == TypeOperator("->", as)

Int == TypeOperator("Int", <<>>)

Float == TypeOperator("Float", <<>>)

String == TypeOperator("String", <<>>)

None == TypeOperator("None", <<>>)

VarIds == 0 .. (MaxIds - 1)

IsVar(t) == t.k = "var"

IsOp(t) == t.k = "op"

RECURSIVE VarsOf(_)
VarsOf(t) ==
    IF t.k = "var" THEN {t.id}
    ELSE IF t.k = "op" THEN UNION {VarsOf(t.args[i]) : i \in 1 .. Len(t.args)}
    ELSE {}

(***************************************************************************)
(* Root.  Returns the representative r, the Instance fields I after path   *)
(* compression, and panic = TRUE when the receiver is the nil interface.   *)
(***************************************************************************)
RECURSIVE RootNoCompress(_, _)
RootNoCompress(t, I) ==
    IF t.k = "nil" THEN [r |-> Nil, I |-> I, panic |-> TRUE]
    ELSE IF t.k = "op" THEN [r |-> t, I |-> I, panic |-> FALSE]
    ELSE IF I[t.id] = Nil THEN [r |-> t, I |-> I, panic |-> FALSE]
    ELSE RootNoCompress(I[t.id], I)

RootIdentity(t, I) == [r |-> t, I |-> I, panic |-> t.k = "nil"]

RootCompressAll(t, I) ==
    [r |-> RootNoCompress(t, I).r,
     I |-> [i \in DOMAIN I |->
              IF I[i] = Nil THEN Nil ELSE RootNoCompress(I[i], I).r],
     panic |-> t.k = "nil"]

RECURSIVE Root(_, _)
Root(t, I) ==
    IF t.k = "nil" THEN [r |-> Nil, I |-> I, panic |-> TRUE]
    ELSE IF t.k = "op" THEN [r |-> t, I |-> I, panic |-> FALSE]
    ELSE IF I[t.id] = Nil THEN [r |-> t, I |-> I, panic |-> FALSE]
    ELSE LET s == Root(I[t.id], I)
         IN  IF s.panic THEN s
             ELSE [r |-> s.r, I |-> [s.I EXCEPT ![t.id] = s.r], panic |-> FALSE]

(***************************************************************************)
(* Equals: deep.Equal of the two values.  Values of different dynamic      *)
(* type differ; two variables are compared field by field (Id, then the    *)
(* Instance pointers: both nil, or both set and their targets equal); two  *)
(* operators by Name and by Args, element by element.                      *)
(***************************************************************************)
RECURSIVE Equals(_, _, _)
Equals(t1, t2, I) ==
    IF t1.k # t2.k THEN FALSE
    ELSE IF t1.k = "nil" THEN TRUE
    ELSE IF t1.k = "var"
         THEN /\ t1.id = t2.id
              /\ \/ I[t1.id] = Nil /\ I[t2.id] = Nil
                 \/ /\ I[t1.id] # Nil
                    /\ I[t2.id] # Nil
                    /\ Equals(I[t1.id], I[t2.id], I)
    ELSE /\ t1.name = t2.name
         /\ Len(t1.args) = Len(t2.args)
         /\ \A i \in 1 .. Len(t1.args) : Equals(t1.args[i], t2.args[i], I)

(***************************************************************************)
(* String: the rendering of a type, a sequence of its pieces.  An unbound  *)
(* variable renders as "typeVar" and its id, a bound one as its instance,  *)
(* an operator as its name followed by " " and the rendering of each       *)
(* argument.  (On the nil Type the call panics; no rendering is made of    *)
(* one here.)                                                              *)
(***************************************************************************)
RECURSIVE TypeString(_, _)
RECURSIVE ArgsString(_, _, _)
ArgsString(args, i, I) ==
    IF i > Len(args) THEN <<>>
    ELSE <<" ">> \o TypeString(args[i], I) \o ArgsString(args, i + 1, I)

TypeString(t, I) ==
    IF t.k = "var"
    THEN (IF I[t.id] # Nil THEN TypeString(I[t.id], I) ELSE <<"typeVar", t.id>>)
    ELSE IF t.k = "op" THEN <<t.name>> \o ArgsString(t.args, 1, I)
    ELSE <<"panic">>

(***************************************************************************)
(* occursIn / occursInType.  Both call Root on what they visit, so they    *)
(* return the compressed Instance fields along with the answer.            *)
(***************************************************************************)
RECURSIVE occursIn(_, _, _, _)
RECURSIVE occursInType(_, _, _)
occursIn(v, types, i, I) ==
    IF i > Len(types) THEN [occ |-> FALSE, I |-> I, panic |-> FALSE]
    ELSE LET o == occursInType(v, types[i], I)
         IN  IF o.panic \/ o.occ THEN o
             ELSE occursIn(v, types, i + 1, o.I)

occursInTypeNever(v, t2, I) == [occ |-> FALSE, I |-> I, panic |-> FALSE]

occursInType(v, t2, I) ==
    LET rt == Root(t2, I)
    IN  IF rt.panic THEN [occ |-> FALSE, I |-> rt.I, panic |-> TRUE]
        ELSE IF Equals(rt.r, v, rt.I) THEN [occ |-> TRUE, I |-> rt.I, panic |-> FALSE]
        ELSE IF IsOp(rt.r) THEN occursIn(v, rt.r.args, 1, rt.I)
        ELSE [occ |-> FALSE, I |-> rt.I, panic |-> FALSE]

isGenericAlways(v, nongeneric, I) == [gen |-> TRUE, I |-> I, panic |-> FALSE]

isGeneric(v, nongeneric, I) ==
    LET o == occursIn(v, nongeneric, 1, I)
    IN  [gen |-> ~o.occ, I |-> o.I, panic |-> o.panic]

(***************************************************************************)
(* Unify.  err is "nil" on success, otherwise the kind of the error that   *)
(* was returned ("type mismatch", "Recursive unification"), or "panic"     *)
(* when the call dereferenced a nil Type or indexed b2.Args out of range.  *)
(* I is the Instance fields the call leaves behind: nothing is undone on   *)
(* failure.                                                                *)
(***************************************************************************)
ErrNil == "nil"

ErrTypeMismatch == "type mismatch"

ErrRecursive == "Recursive unification"

ErrPanic == "panic"

SetInstanceDropped(I, v, t1) == I

SetInstance(I, v, t1) == [I EXCEPT ![v.id] = t1]

MismatchNameOnly(a2, b2) == a2.name # b2.name

Mismatch(a2, b2) == a2.name # b2.name \/ Len(a2.args) # Len(b2.args)

RECURSIVE UnifyRec(_, _, _)
RECURSIVE UnifyArgs(_, _, _, _)
RECURSIVE UnifyArgsNoStop(_, _, _, _)
UnifyArgsNoStop(as, bs, i, I) ==
    IF i > Len(as) THEN [err |-> ErrNil, I |-> I]
    ELSE IF i > Len(bs) THEN [err |-> ErrPanic, I |-> I]
    ELSE LET u == UnifyRec(as[i], bs[i], I)
             rest == UnifyArgsNoStop(as, bs, i + 1, u.I)
         IN  IF u.err = ErrPanic THEN u
             ELSE IF u.err # ErrNil THEN [err |-> u.err, I |-> rest.I]
             ELSE rest

UnifyArgs(as, bs, i, I) ==
    IF i > Len(as) THEN [err |-> ErrNil, I |-> I]
    ELSE IF i > Len(bs) THEN [err |-> ErrPanic, I |-> I]
    ELSE LET u == UnifyRec(as[i], bs[i], I)
         IN  IF u.err # ErrNil THEN u
             ELSE UnifyArgs(as, bs, i + 1, u.I)

UnifyRecNoSwap(a, b, I) ==
    LET ra == Root(a, I)
        rb == Root(b, ra.I)
        a1 == ra.r
        b1 == rb.r
    IN  IF ra.panic THEN [err |-> ErrPanic, I |-> ra.I]
        ELSE IF rb.panic THEN [err |-> ErrPanic, I |-> rb.I]
        ELSE IF IsVar(a1)
        THEN IF ~IsVar(b1) \/ a1.id # b1.id
             THEN LET o == occursInType(a1, b1, rb.I)
                  IN  IF o.panic THEN [err |-> ErrPanic, I |-> o.I]
                      ELSE IF o.occ THEN [err |-> ErrRecursive, I |-> o.I]
                      ELSE [err |-> ErrNil, I |-> SetInstance(o.I, a1, b1)]
             ELSE [err |-> ErrNil, I |-> rb.I]
        ELSE IF IsVar(b1) THEN [err |-> ErrNil, I |-> rb.I]
        ELSE IF Mismatch(a1, b1)
             THEN [err |-> ErrTypeMismatch, I |-> rb.I]
             ELSE UnifyArgs(a1.args, b1.args, 1, rb.I)

UnifyRec(a, b, I) ==
    LET ra == Root(a, I)
        rb == Root(b, ra.I)
        a1 == ra.r
        b1 == rb.r
    IN  IF ra.panic THEN [err |-> ErrPanic, I |-> ra.I]
        ELSE IF rb.panic THEN [err |-> ErrPanic, I |-> rb.I]
        ELSE IF IsVar(a1)
        THEN IF ~IsVar(b1) \/ a1.id # b1.id
             THEN LET o == occursInType(a1, b1, rb.I)
                  IN  IF o.panic THEN [err |-> ErrPanic, I |-> o.I]
                      ELSE IF o.occ THEN [err |-> ErrRecursive, I |-> o.I]
                      ELSE [err |-> ErrNil, I |-> SetInstance(o.I, a1, b1)]
             ELSE [err |-> ErrNil, I |-> rb.I]
        ELSE IF IsVar(b1) THEN UnifyRec(b, a, rb.I)
        ELSE IF Mismatch(a1, b1)
             THEN [err |-> ErrTypeMismatch, I |-> rb.I]
             ELSE UnifyArgs(a1.args, b1.args, 1, rb.I)

(***************************************************************************)
(* FreshType.  mappings is a function from variable ids to the variable    *)
(* each was replaced by (Nil: no entry).  next is nextVariableId, which    *)
(* NewTypeVariable reads and increments.                                   *)
(***************************************************************************)
NoMappings == [i \in VarIds |-> Nil]

NilArgs(n) == [i \in 1 .. n |-> Nil]

NextId(n) == n + 1

freshVarAlways(p1, st, I) ==
    [t |-> TypeVariable(st.next), I |-> I, next |-> NextId(st.next),
     mappings |-> [st.mappings EXCEPT ![p1.id] = TypeVariable(st.next)],
     panic |-> FALSE]

freshVarShared(p1, st, I) ==
    [t |-> p1, I |-> I, next |-> st.next, mappings |-> st.mappings,
     panic |-> FALSE]

freshVar(p1, st, I) ==
    IF st.mappings[p1.id] = Nil
    THEN [t |-> TypeVariable(st.next), I |-> I, next |-> NextId(st.next),
          mappings |-> [st.mappings EXCEPT ![p1.id] = TypeVariable(st.next)],
          panic |-> FALSE]
    ELSE [t |-> st.mappings[p1.id], I |-> I, next |-> st.next,
          mappings |-> st.mappings, panic |-> FALSE]

RECURSIVE freshRec(_, _, _)
RECURSIVE freshArgs(_, _, _, _, _)
freshArgs(src, i, args, nongeneric, st) ==
    IF i > Len(src) THEN [t |-> args, I |-> st.I, next |-> st.next,
                          mappings |-> st.mappings, panic |-> FALSE]
    ELSE LET f == freshRec(src[i], nongeneric, st)
         IN  IF f.panic THEN f
             ELSE freshArgs(src, i + 1, Append(args, f.t), nongeneric,
                            [I |-> f.I, next |-> f.next, mappings |-> f.mappings])

freshRec(tp, nongeneric, st) ==
    LET rt == Root(tp, st.I)
        p1 == rt.r
    IN  IF rt.panic
        THEN [t |-> Nil, I |-> rt.I, next |-> st.next,
              mappings |-> st.mappings, panic |-> TRUE]
        ELSE IF IsVar(p1)
        THEN LET g == isGeneric(p1, nongeneric, rt.I)
             IN  IF g.panic
                 THEN [t |-> Nil, I |-> g.I, next |-> st.next,
                       mappings |-> st.mappings, panic |-> TRUE]
                 ELSE IF g.gen THEN freshVar(p1, st, g.I)
                 ELSE [t |-> p1, I |-> g.I, next |-> st.next,
                       mappings |-> st.mappings, panic |-> FALSE]
        ELSE LET fa == freshArgs(p1.args, 1, NilArgs(Len(p1.args)), nongeneric,
                                 [I |-> rt.I, next |-> st.next,
                                  mappings |-> st.mappings])
             IN  IF fa.panic THEN fa
                 ELSE [t |-> TypeOperator(p1.name, fa.t), I |-> fa.I,
                       next |-> fa.next, mappings |-> fa.mappings, panic |-> FALSE]

(***************************************************************************)
(* Capture group types.  A *syntax.Regexp is a record [Op, Rune, Sub,      *)
(* Cap]; NilRegexp is the nil pointer.  A rune is its code point; a        *)
(* string is the sequence of its runes.  The trees are those the regexp    *)
(* parser builds: a character class holds lo, hi pairs, a repetition or a  *)
(* capture has one sub-expression.                                         *)
(***************************************************************************)
Regexp(op, rune, sub, cap) == [Op |-> op, Rune |-> rune, Sub |-> sub, Cap |-> cap]

NilRegexp == Regexp("nil", <<>>, <<>>, 0)

OpLiteral == "OpLiteral"

OpCharClass == "OpCharClass"

OpStar == "OpStar"

OpPlus == "OpPlus"

OpRepeat == "OpRepeat"

OpQuest == "OpQuest"

OpCapture == "OpCapture"

OpConcat == "OpConcat"

OpAlternate == "OpAlternate"

OpAnyChar == "OpAnyChar"

OpEmptyMatch == "OpEmptyMatch"

OpBeginLine == "OpBeginLine"

(* "+-0123456789" *)
IntRunes == <<43, 45, 48, 49, 50, 51, 52, 53, 54, 55, 56, 57>>

(* "+-0123456789.eE" *)
FloatRunes == IntRunes \o <<46, 101, 69>>

ContainsRune(s, r) == \E i \in 1 .. Len(s) : s[i] = r

RECURSIVE groupOnlyMatchesEnds(_, _)
groupOnlyMatchesEnds(re, s) ==
    IF re.Op = OpLiteral
    THEN \A i \in 1 .. Len(re.Rune) : ContainsRune(s, re.Rune[i])
    ELSE IF re.Op = OpCharClass
    THEN \A i \in 1 .. Len(re.Rune) : ContainsRune(s, re.Rune[i])
    ELSE IF re.Op \in {OpStar, OpPlus, OpRepeat, OpQuest, OpCapture}
    THEN groupOnlyMatchesEnds(re.Sub[1], s)
    ELSE IF re.Op \in {OpConcat, OpAlternate}
    THEN \A i \in 1 .. Len(re.Sub) : groupOnlyMatchesEnds(re.Sub[i], s)
    ELSE FALSE

RECURSIVE groupOnlyMatches(_, _)
groupOnlyMatches(re, s) ==
    IF re.Op = OpLiteral
    THEN \A i \in 1 .. Len(re.Rune) : ContainsRune(s, re.Rune[i])
    ELSE IF re.Op = OpCharClass
    THEN \A k \in 1 .. (Len(re.Rune) \div 2) :
            \A r \in re.Rune[2 * k - 1] .. re.Rune[2 * k] : ContainsRune(s, r)
    ELSE IF re.Op \in {OpStar, OpPlus, OpRepeat, OpQuest, OpCapture}
    THEN groupOnlyMatches(re.Sub[1], s)
    ELSE IF re.Op \in {OpConcat, OpAlternate}
    THEN \A i \in 1 .. Len(re.Sub) : groupOnlyMatches(re.Sub[i], s)
    ELSE FALSE

RECURSIVE getCaptureGroupOutermost(_, _)
getCaptureGroupOutermost(re, cap) ==
    IF re.Op = OpCapture
    THEN (IF re.Cap = cap THEN re ELSE NilRegexp)
    ELSE LET found == {i \in 1 .. Len(re.Sub) :
                         getCaptureGroupOutermost(re.Sub[i], cap) # NilRegexp}
         IN  IF found = {} THEN NilRegexp
             ELSE getCaptureGroupOutermost(
                      re.Sub[CHOOSE i \in found : \A j \in found : i <= j], cap)

RECURSIVE getCaptureGroup(_, _)
RECURSIVE getCaptureGroupSub(_, _, _)
getCaptureGroupSub(sub, i, cap) ==
    IF i > Len(sub) THEN NilRegexp
    ELSE LET r == getCaptureGroup(sub[i], cap)
         IN  IF r # NilRegexp THEN r
             ELSE getCaptureGroupSub(sub, i + 1, cap)

getCaptureGroup(re, cap) ==
    IF re.Op = OpCapture /\ re.Cap = cap THEN re
    ELSE getCaptureGroupSub(re.Sub, 1, cap)

inferCaprefType(re, cap) ==
    LET group == getCaptureGroup(re, cap)
    IN  IF group = NilRegexp THEN None
        ELSE IF groupOnlyMatches(group, IntRunes) THEN Int
        ELSE IF groupOnlyMatches(group, FloatRunes) THEN Float
        ELSE Int

(***************************************************************************)
(* The calls.  The caller is one sequential inference pass: it makes a     *)
(* call, looks at what came back (last records the call, its arguments,    *)
(* its result (for Equals the boolean) and, for FreshType, the mappings    *)
(* table and the value of nextVariableId when it started), and goes on     *)
(* (Return).  A pass that     *)
(* instantiates a signature at two call sites keeps each site's FreshType  *)
(* result in fresh (Keep).  A call that panics ends the program: nothing   *)
(* runs after it.                                                          *)
(***************************************************************************)
Call(op, a, b, ng, res, err, m, n0) ==
    [op |-> op, a |-> a, b |-> b, ng |-> ng, res |-> res, err |-> err,
     mappings |-> m, next0 |-> n0]

NoCall == Call("none", Nil, Nil, <<>>, Nil, ErrNil, NoMappings, 0)

Idle == last = NoCall

CallSites == {"first", "second"}

Goroutines == {"g1", "g2"}

Unlocked == [writer |-> "free", readers |-> {}]

NotRunning ==
    [op |-> "none", pc |-> "idle", a |-> Nil, b |-> Nil, a1 |-> Nil, b1 |-> Nil,
     cur |-> 0, stack |-> <<>>, res |-> Nil, str |-> <<>>, err |-> ErrNil,
     id |-> 0, i |-> 0, args |-> <<>>, mappings |-> NoMappings, own |-> <<>>]

NoRegexp == [re |-> NilRegexp, cap |-> 0, pc |-> "none", res |-> Nil]

Init ==
    /\ nextVariableId = 0
    /\ Instance = [i \in VarIds |-> Nil]
    /\ last = NoCall
    /\ fresh = [s \in CallSites |-> NoCall]
    /\ regex = NoRegexp
    /\ nextVariableIdMu = "free"
    /\ instanceMu = [i \in VarIds |-> Unlocked]
    /\ goroutine = [g \in Goroutines |-> NotRunning]
    /\ issued = <<>>

NewTypeVariable ==
    /\ Idle
    /\ nextVariableId' = NextId(nextVariableId)
    /\ last' = Call("NewTypeVariable", Nil, Nil, <<>>,
                    TypeVariable(nextVariableId), ErrNil, NoMappings,
                    nextVariableId)
    /\ UNCHANGED <<Instance, fresh, elsewhere>>

CallRoot(t) ==
    /\ Idle
    /\ LET r == Root(t, Instance)
       IN  /\ Instance' = r.I
           /\ last' = Call("Root", t, Nil, <<>>, r.r, ErrNil, NoMappings,
                           nextVariableId)
    /\ UNCHANGED <<nextVariableId, fresh, elsewhere>>

Unify(a, b) ==
    /\ Idle
    /\ LET u == UnifyRec(a, b, Instance)
       IN  /\ Instance' = u.I
           /\ last' = Call("Unify", a, b, <<>>, Nil, u.err, NoMappings,
                           nextVariableId)
    /\ UNCHANGED <<nextVariableId, fresh, elsewhere>>

CallEquals(t1, t2) ==
    /\ Idle
    /\ last' = Call("Equals", t1, t2, <<>>, Equals(t1, t2, Instance), ErrNil,
                    NoMappings, nextVariableId)
    /\ UNCHANGED <<nextVariableId, Instance, fresh, elsewhere>>

FreshType(t, nongeneric) ==
    /\ Idle
    /\ LET f == freshRec(t, nongeneric,
                         [I |-> Instance, next |-> nextVariableId,
                          mappings |-> NoMappings])
       IN  /\ f.next <= MaxIds
           /\ Instance' = f.I
           /\ nextVariableId' = f.next
           /\ last' = Call("FreshType", t, Nil, nongeneric, f.t,
                           IF f.panic THEN ErrPanic ELSE ErrNil, f.mappings,
                           nextVariableId)
    /\ UNCHANGED <<fresh, elsewhere>>

Keep(s) ==
    /\ last.op = "FreshType"
    /\ last.err # ErrPanic
    /\ fresh[s] = NoCall
    /\ fresh' = [fresh EXCEPT ![s] = last]
    /\ last' = NoCall
    /\ UNCHANGED <<nextVariableId, Instance, elsewhere>>

Return ==
    /\ ~Idle
    /\ last.err # ErrPanic
    /\ last' = NoCall
    /\ UNCHANGED <<nextVariableId, Instance, fresh, elsewhere>>

(***************************************************************************)
(* Spec: one inference pass over the variables it allocates, the atomic    *)
(* types and the function types of one argument built from them.           *)
(***************************************************************************)
Vars == {TypeVariable(i) : i \in 0 .. (nextVariableId - 1)}

Atoms == {Int, Float}

Leaves == Atoms \cup Vars

Terms ==
    Leaves
    \cup {Function(<<x>>) : x \in Leaves}
    \cup {Function(<<Function(<<x>>)>>) : x \in Vars}

NonGenerics == {<<>>} \cup {<<x>> : x \in Terms}

Next ==
    \/ nextVariableId < MaxVars /\ NewTypeVariable
    \/ \E t \in Terms : CallRoot(t)
    \/ \E a \in Terms, b \in Terms : Unify(a, b)
    \/ \E a \in Leaves, b \in Leaves : CallEquals(a, b)
    \/ \E t \in Terms, ng \in NonGenerics :
          FreshType(t, ng) /\ nextVariableId' <= MaxVars
    \/ Return

Spec == Init /\ [][Next]_vars

(***************************************************************************)
(* SpecArgs: the same pass unifying function types of one, two and three   *)
(* arguments.                                                              *)
(***************************************************************************)
ArgLeaves == {Int, Float, String} \cup Vars

ArgFunctions ==
    {Function(<<Int>>), Function(<<Int, Int>>)}
    \cup {Function(<<x, y, z>>) :
             x \in {Int} \cup Vars, y \in {Int, Float}, z \in {String} \cup Vars}

NextArgs ==
    \/ nextVariableId < MaxVars /\ NewTypeVariable
    \/ \E a \in ArgLeaves, b \in ArgLeaves : Unify(a, b)
    \/ \E a \in ArgFunctions, b \in ArgFunctions : Unify(a, b)
    \/ Return

SpecArgs == Init /\ [][NextArgs]_vars

(***************************************************************************)
(* SpecFresh: the pass instantiating function types of two arguments at    *)
(* its two call sites, keeping each result, and unifying the variables of  *)
(* the results with Int, its own variables with the results, and each      *)
(* result with itself.                                                     *)
(***************************************************************************)
KeptSites == {s \in CallSites : fresh[s] # NoCall}

Kept == {fresh[s].res : s \in KeptSites}

KeptVars == {TypeVariable(i) : i \in UNION {VarsOf(t) : t \in Kept}}

SigVars == {v \in Vars : v.id < MaxVars}

FreshCalls ==
    {<<Function(<<x, y>>), ng>> :
        x \in SigVars, y \in SigVars \cup {Int},
        ng \in {<<>>} \cup {<<v>> : v \in SigVars}}
    \cup {<<Function(<<String, Int>>), <<>> >>}

NextFresh ==
    \/ nextVariableId < MaxVars /\ NewTypeVariable
    \/ /\ KeptSites # CallSites
       /\ \E c \in FreshCalls : FreshType(c[1], c[2])
    \/ Keep("first")
    \/ fresh["first"] # NoCall /\ Keep("second")
    \/ \E a \in KeptVars : Unify(a, Int)
    \/ \E a \in SigVars, b \in Kept : Unify(a, b)
    \/ \E t \in Kept : Unify(t, t)
    \/ last.op # "FreshType" /\ Return

SpecFresh == Init /\ [][NextFresh]_vars

(***************************************************************************)
(* SpecCapref: inferCaprefType applied to a parsed regular expression and  *)
(* a capture group number.  The expressions are capture groups around      *)
(* literals, character classes, repetitions, concatenations and            *)
(* alternations of them and the operators that match no particular rune,   *)
(* alone, nested in one another, and side by side.                         *)
(***************************************************************************)
Literal(rune) == Regexp(OpLiteral, rune, <<>>, 0)

CharClass(rune) == Regexp(OpCharClass, rune, <<>>, 0)

Star(x) == Regexp(OpStar, <<>>, <<x>>, 0)

Plus(x) == Regexp(OpPlus, <<>>, <<x>>, 0)

Repeat(x) == Regexp(OpRepeat, <<>>, <<x>>, 0)

Quest(x) == Regexp(OpQuest, <<>>, <<x>>, 0)

Capture(n, x) == Regexp(OpCapture, <<>>, <<x>>, n)

Concat(sub) == Regexp(OpConcat, <<>>, sub, 0)

Alternate(sub) == Regexp(OpAlternate, <<>>, sub, 0)

Digits == CharClass(<<48, 57>>)

Lower == CharClass(<<97, 122>>)

Dot == Literal(<<46>>)

Literals ==
    {Literal(<<48>>), Literal(<<45, 53>>), Literal(<<49, 46>>), Dot,
     Literal(<<101>>), Literal(<<97>>), Literal(<<50, 120>>)}

CharClasses ==
    {Digits, Lower, CharClass(<<43, 43, 45, 45>>), CharClass(<<45, 46>>),
     CharClass(<<43, 57>>), CharClass(<<69, 69, 101, 101>>),
     CharClass(<<48, 57, 97, 102>>), CharClass(<<48, 101>>), CharClass(<<>>)}

Unrestricted ==
    {Regexp(OpAnyChar, <<>>, <<>>, 0), Regexp(OpEmptyMatch, <<>>, <<>>, 0),
     Regexp(OpBeginLine, <<>>, <<>>, 0)}

Repetitions ==
    UNION {{Star(x), Plus(x), Repeat(x), Quest(x)} :
             x \in {Digits, Lower, Literal(<<101>>), Regexp(OpAnyChar, <<>>, <<>>, 0)}}

Parts == {Plus(Digits), Dot, Literal(<<101>>), Lower, Regexp(OpAnyChar, <<>>, <<>>, 0)}

Compound ==
    {Concat(<<>>), Concat(<<Plus(Digits), Dot, Plus(Digits)>>)}
    \cup {Concat(<<x, y>>) : x \in Parts, y \in Parts}
    \cup {Alternate(<<x, y>>) : x \in Parts, y \in Parts}

Bodies == Literals \cup CharClasses \cup Unrestricted \cup Repetitions \cup Compound

CapNums == 1 .. MaxCap

Groups == {Capture(n, b) : n \in CapNums, b \in Bodies}

Inner == {Plus(Digits), Concat(<<Plus(Digits), Dot>>), Lower}

Nested ==
    {Capture(n, Concat(<<x, Capture(m, y)>>)) :
        n \in CapNums, m \in CapNums, x \in Inner, y \in Inner}

Beside ==
    {Concat(<<Lower, Capture(n, x), Quest(Capture(m, y))>>) :
        n \in CapNums, m \in CapNums, x \in Inner, y \in Inner}
    \cup {Alternate(<<Capture(n, x), Star(Capture(m, Capture(n, y)))>>) :
        n \in CapNums, m \in CapNums, x \in Inner, y \in Inner}

Regexps == Bodies \cup Groups \cup Nested \cup Beside

Requested == 0 .. (MaxCap + 1)

InitCapref ==
    /\ nextVariableId = 0
    /\ Instance = [i \in VarIds |-> Nil]
    /\ last = NoCall
    /\ fresh = [s \in CallSites |-> NoCall]
    /\ regex \in {[re |-> re, cap |-> cap, pc |-> "call", res |-> Nil] :
                     re \in Regexps, cap \in Requested}
    /\ nextVariableIdMu = "free"
    /\ instanceMu = [i \in VarIds |-> Unlocked]
    /\ goroutine = [g \in Goroutines |-> NotRunning]
    /\ issued = <<>>

CallInferCaprefType ==
    /\ regex.pc = "call"
    /\ regex' = [regex EXCEPT !.pc = "return",
                              !.res = inferCaprefType(regex.re, regex.cap)]
    /\ UNCHANGED <<nextVariableId, Instance, last, fresh,
                   nextVariableIdMu, instanceMu, goroutine, issued>>

NextCapref == CallInferCaprefType

SpecCapref == InitCapref /\ [][NextCapref]_vars

(***************************************************************************)
(* SpecAlloc: goroutines calling NewTypeVariable, directly and from        *)
(* FreshType, at the same time.  A step of a goroutine is one statement    *)
(* of NewTypeVariable: Lock, the read of nextVariableId, its increment,    *)
(* Unlock, the return.  A goroutine instantiates function types over the   *)
(* variables it has been returned (own); freshRec visits their arguments   *)
(* from the left and allocates for each one that has no mappings entry     *)
(* yet.  A goroutine that finds the counter at MaxIds goes no further.     *)
(***************************************************************************)
MutexNeverBlocks(mu) == TRUE

MutexFree(mu) == mu = "free"

RECURSIVE FreshAdvance(_, _, _, _)
FreshAdvance(p1, i, args, m) ==
    IF i > Len(p1.args) THEN [i |-> i, args |-> args, done |-> TRUE]
    ELSE IF m[p1.args[i].id] # Nil
    THEN FreshAdvance(p1, i + 1, Append(args, m[p1.args[i].id]), m)
    ELSE [i |-> i, args |-> args, done |-> FALSE]

OwnVars(g) == {TypeVariable(goroutine[g].own[k]) : k \in 1 .. Len(goroutine[g].own)}

OwnSignatures(g) == {Function(<<x, y>>) : x \in OwnVars(g), y \in OwnVars(g)}

GoNewTypeVariable(g) ==
    /\ goroutine[g].pc = "idle"
    /\ goroutine' = [goroutine EXCEPT ![g] =
                        [@ EXCEPT !.op = "NewTypeVariable", !.pc = "lock",
                                  !.a = Nil, !.res = Nil]]
    /\ UNCHANGED <<nextVariableId, Instance, last, fresh, regex,
                   nextVariableIdMu, instanceMu, issued>>

GoFreshType(g, t) ==
    /\ goroutine[g].pc = "idle"
    /\ goroutine' = [goroutine EXCEPT ![g] =
                        [@ EXCEPT !.op = "FreshType", !.pc = "lock", !.a = t,
                                  !.i = 1, !.args = NilArgs(Len(t.args)),
                                  !.mappings = NoMappings, !.res = Nil]]
    /\ UNCHANGED <<nextVariableId, Instance, last, fresh, regex,
                   nextVariableIdMu, instanceMu, issued>>

GoLock(g) ==
    /\ goroutine[g].pc = "lock"
    /\ nextVariableId < MaxIds
    /\ MutexFree(nextVariableIdMu)
    /\ nextVariableIdMu' = g
    /\ goroutine' = [goroutine EXCEPT ![g].pc = "read"]
    /\ UNCHANGED <<nextVariableId, Instance, last, fresh, regex, instanceMu, issued>>

GoReadId(g) ==
    /\ goroutine[g].pc = "read"
    /\ goroutine' = [goroutine EXCEPT ![g] =
                        [@ EXCEPT !.id = nextVariableId, !.pc = "increment"]]
    /\ issued' = Append(issued, [g |-> g, id |-> nextVariableId])
    /\ UNCHANGED <<nextVariableId, Instance, last, fresh, regex,
                   nextVariableIdMu, instanceMu>>

GoIncrement(g) ==
    /\ goroutine[g].pc = "increment"
    /\ nextVariableId' = NextId(nextVariableId)
    /\ goroutine' = [goroutine EXCEPT ![g].pc = "unlock"]
    /\ UNCHANGED <<Instance, last, fresh, regex, nextVariableIdMu, instanceMu, issued>>

GoUnlock(g) ==
    /\ goroutine[g].pc = "unlock"
    /\ nextVariableIdMu' = "free"
    /\ goroutine' = [goroutine EXCEPT ![g].pc = "return"]
    /\ UNCHANGED <<nextVariableId, Instance, last, fresh, regex, instanceMu, issued>>

GoReturnVariable(g) ==
    /\ goroutine[g].pc = "return"
    /\ LET me == goroutine[g]
           v == TypeVariable(me.id)
           m == [me.mappings EXCEPT ![me.a.args[me.i].id] = v]
           adv == FreshAdvance(me.a, me.i, me.args, m)
       IN  goroutine' = [goroutine EXCEPT ![g] =
              IF me.op = "NewTypeVariable"
              THEN [me EXCEPT !.pc = "idle", !.res = v,
                              !.own = Append(me.own, me.id)]
              ELSE IF adv.done
              THEN [me EXCEPT !.pc = "idle", !.i = adv.i, !.args = adv.args,
                              !.mappings = m, !.own = Append(me.own, me.id),
                              !.res = TypeOperator(me.a.name, adv.args)]
              ELSE [me EXCEPT !.pc = "lock", !.i = adv.i, !.args = adv.args,
                              !.mappings = m, !.own = Append(me.own, me.id)]]
    /\ UNCHANGED <<nextVariableId, Instance, last, fresh, regex,
                   nextVariableIdMu, instanceMu, issued>>

NextAlloc ==
    \/ \E g \in Goroutines : GoNewTypeVariable(g)
    \/ \E g \in Goroutines : \E t \in OwnSignatures(g) : GoFreshType(g, t)
    \/ \E g \in Goroutines : GoLock(g)
    \/ \E g \in Goroutines : GoReadId(g)
    \/ \E g \in Goroutines : GoIncrement(g)
    \/ \E g \in Goroutines : GoUnlock(g)
    \/ \E g \in Goroutines : GoReturnVariable(g)

SpecAlloc == Init /\ [][NextAlloc]_vars

(***************************************************************************)
(* SpecRace: two goroutines calling Unify at the same time on the          *)
(* variables the pass has allocated and the atomic types.  A step of a     *)
(* goroutine is one of the calls Unify makes that take a variable's lock:  *)
(* a.Root(), b.Root(), occursInType(a2, b1), a2.SetInstance(&b1); what     *)
(* Unify decides from a1 and b1 without touching a variable belongs to     *)
(* the step before.  The operators here have no arguments, so the          *)
(* argument loop has nothing to do.                                        *)
(***************************************************************************)
NoneStarted == \A g \in Goroutines : goroutine[g] = NotRunning

GoUnify(g, a, b) ==
    /\ Idle
    /\ goroutine[g].pc = "idle"
    /\ goroutine' = [goroutine EXCEPT ![g] =
                        [@ EXCEPT !.op = "Unify", !.pc = "rootA", !.a = a, !.b = b]]
    /\ UNCHANGED <<nextVariableId, Instance, last, fresh, regex,
                   nextVariableIdMu, instanceMu, issued>>

GoRootA(g) ==
    /\ goroutine[g].op = "Unify"
    /\ goroutine[g].pc = "rootA"
    /\ LET ra == Root(goroutine[g].a, Instance)
       IN  /\ Instance' = ra.I
           /\ goroutine' = [goroutine EXCEPT ![g] =
                               [@ EXCEPT !.a1 = ra.r, !.pc = "rootB"]]
    /\ UNCHANGED <<nextVariableId, last, fresh, regex,
                   nextVariableIdMu, instanceMu, issued>>

GoRootB(g) ==
    /\ goroutine[g].op = "Unify"
    /\ goroutine[g].pc = "rootB"
    /\ LET me == goroutine[g]
           rb == Root(me.b, Instance)
           a1 == me.a1
           b1 == rb.r
       IN  /\ Instance' = rb.I
           /\ goroutine' = [goroutine EXCEPT ![g] =
                 IF IsVar(a1)
                 THEN IF ~IsVar(b1) \/ a1.id # b1.id
                      THEN [me EXCEPT !.b1 = b1, !.pc = "occursInType"]
                      ELSE [me EXCEPT !.b1 = b1, !.pc = "done", !.err = ErrNil]
                 ELSE IF IsVar(b1)
                 THEN [me EXCEPT !.a = me.b, !.b = me.a, !.pc = "rootA"]
                 ELSE IF Mismatch(a1, b1)
                 THEN [me EXCEPT !.b1 = b1, !.pc = "done", !.err = ErrTypeMismatch]
                 ELSE [me EXCEPT !.b1 = b1, !.pc = "done", !.err = ErrNil]]
    /\ UNCHANGED <<nextVariableId, last, fresh, regex,
                   nextVariableIdMu, instanceMu, issued>>

GoOccursInType(g) ==
    /\ goroutine[g].pc = "occursInType"
    /\ LET me == goroutine[g]
           o == occursInType(me.a1, me.b1, Instance)
       IN  /\ Instance' = o.I
           /\ goroutine' = [goroutine EXCEPT ![g] =
                 IF o.occ THEN [me EXCEPT !.pc = "done", !.err = ErrRecursive]
                 ELSE [me EXCEPT !.pc = "SetInstance"]]
    /\ UNCHANGED <<nextVariableId, last, fresh, regex,
                   nextVariableIdMu, instanceMu, issued>>

GoSetInstance(g) ==
    /\ goroutine[g].pc = "SetInstance"
    /\ Instance' = SetInstance(Instance, goroutine[g].a1, goroutine[g].b1)
    /\ goroutine' = [goroutine EXCEPT ![g] = [@ EXCEPT !.pc = "done", !.err = ErrNil]]
    /\ UNCHANGED <<nextVariableId, last, fresh, regex,
                   nextVariableIdMu, instanceMu, issued>>

NextRace ==
    \/ NoneStarted /\ nextVariableId < MaxVars /\ NewTypeVariable
    \/ NoneStarted /\ Return
    \/ \E g \in Goroutines : \E a \in Leaves, b \in Leaves : GoUnify(g, a, b)
    \/ \E g \in Goroutines : GoRootA(g)
    \/ \E g \in Goroutines : GoRootB(g)
    \/ \E g \in Goroutines : GoOccursInType(g)
    \/ \E g \in Goroutines : GoSetInstance(g)

SpecRace == Init /\ [][NextRace]_vars

(***************************************************************************)
(* SpecChain: the pass binds its variables to one another and to atomic    *)
(* types, then two goroutines call Root and String on them at the same     *)
(* time.  instanceMu[i].writer is the goroutine that has called Lock on    *)
(* variable i (it holds the lock once the readers have left; RLock waits   *)
(* while there is one), instanceMu[i].readers are the goroutines holding   *)
(* the read lock.  A goroutine's stack lists the variables whose Root or   *)
(* String call has not returned yet: it holds the lock of each; compress   *)
(* says whether that Root call stores the result in Instance.              *)
(***************************************************************************)
WriterFree(mu) == mu.writer = "free"

NoReaders(mu) == mu.readers = {}

UnlockForgotten(mu) == mu

Unlock(mu) == [mu EXCEPT !.writer = "free"]

RUnlock(mu, g) == [mu EXCEPT !.readers = @ \ {g}]

Frame(i, c) == [id |-> i, compress |-> c]

Top(stack) == stack[Len(stack)]

Pop(stack) == SubSeq(stack, 1, Len(stack) - 1)

GoRoot(g, v) ==
    /\ Idle
    /\ goroutine[g].pc = "idle"
    /\ goroutine' = [goroutine EXCEPT ![g] =
                        [@ EXCEPT !.op = "Root", !.pc = "Lock", !.a = v, !.cur = v.id]]
    /\ UNCHANGED <<nextVariableId, Instance, last, fresh, regex,
                   nextVariableIdMu, instanceMu, issued>>

GoRootLock(g) ==
    /\ goroutine[g].op = "Root"
    /\ goroutine[g].pc = "Lock"
    /\ WriterFree(instanceMu[goroutine[g].cur])
    /\ instanceMu' = [instanceMu EXCEPT ![goroutine[g].cur].writer = g]
    /\ goroutine' = [goroutine EXCEPT ![g].pc = "pending"]
    /\ UNCHANGED <<nextVariableId, Instance, last, fresh, regex,
                   nextVariableIdMu, issued>>

GoRootLocked(g) ==
    /\ goroutine[g].op = "Root"
    /\ goroutine[g].pc = "pending"
    /\ NoReaders(instanceMu[goroutine[g].cur])
    /\ LET me == goroutine[g]
           inst == Instance[me.cur]
       IN  goroutine' = [goroutine EXCEPT ![g] =
              IF inst = Nil
              THEN [me EXCEPT !.stack = Append(me.stack, Frame(me.cur, FALSE)),
                              !.res = TypeVariable(me.cur), !.pc = "return"]
              ELSE IF IsOp(inst)
              THEN [me EXCEPT !.stack = Append(me.stack, Frame(me.cur, TRUE)),
                              !.res = inst, !.pc = "return"]
              ELSE [me EXCEPT !.stack = Append(me.stack, Frame(me.cur, TRUE)),
                              !.cur = inst.id, !.pc = "Lock"]]
    /\ UNCHANGED <<nextVariableId, Instance, last, fresh, regex,
                   nextVariableIdMu, instanceMu, issued>>

GoRootReturn(g) ==
    /\ goroutine[g].op = "Root"
    /\ goroutine[g].pc = "return"
    /\ LET me == goroutine[g]
           top == Top(me.stack)
       IN  /\ Instance' = IF top.compress
                          THEN [Instance EXCEPT ![top.id] = me.res]
                          ELSE Instance
           /\ instanceMu' = [instanceMu EXCEPT ![top.id] = Unlock(@)]
           /\ goroutine' = [goroutine EXCEPT ![g] =
                 [me EXCEPT !.stack = Pop(me.stack),
                            !.pc = IF Len(me.stack) = 1 THEN "done" ELSE "return"]]
    /\ UNCHANGED <<nextVariableId, last, fresh, regex, nextVariableIdMu, issued>>

GoString(g, v) ==
    /\ Idle
    /\ goroutine[g].pc = "idle"
    /\ goroutine' = [goroutine EXCEPT ![g] =
                        [@ EXCEPT !.op = "String", !.pc = "RLock", !.a = v, !.cur = v.id]]
    /\ UNCHANGED <<nextVariableId, Instance, last, fresh, regex,
                   nextVariableIdMu, instanceMu, issued>>

GoStringRLock(g) ==
    /\ goroutine[g].op = "String"
    /\ goroutine[g].pc = "RLock"
    /\ WriterFree(instanceMu[goroutine[g].cur])
    /\ instanceMu' = [instanceMu EXCEPT ![goroutine[g].cur].readers = @ \cup {g}]
    /\ LET me == goroutine[g]
           inst == Instance[me.cur]
       IN  goroutine' = [goroutine EXCEPT ![g] =
              IF inst = Nil
              THEN [me EXCEPT !.stack = Append(me.stack, Frame(me.cur, FALSE)),
                              !.str = TypeString(TypeVariable(me.cur), Instance),
                              !.pc = "return"]
              ELSE IF IsOp(inst)
              THEN [me EXCEPT !.stack = Append(me.stack, Frame(me.cur, FALSE)),
                              !.str = TypeString(inst, Instance), !.pc = "return"]
              ELSE [me EXCEPT !.stack = Append(me.stack, Frame(me.cur, FALSE)),
                              !.cur = inst.id, !.pc = "RLock"]]
    /\ UNCHANGED <<nextVariableId, Instance, last, fresh, regex,
                   nextVariableIdMu, issued>>

GoStringReturn(g) ==
    /\ goroutine[g].op = "String"
    /\ goroutine[g].pc = "return"
    /\ LET me == goroutine[g]
           top == Top(me.stack)
       IN  /\ instanceMu' = [instanceMu EXCEPT ![top.id] = RUnlock(@, g)]
           /\ goroutine' = [goroutine EXCEPT ![g] =
                 [me EXCEPT !.stack = Pop(me.stack),
                            !.pc = IF Len(me.stack) = 1 THEN "done" ELSE "return"]]
    /\ UNCHANGED <<nextVariableId, Instance, last, fresh, regex,
                   nextVariableIdMu, issued>>

GoStep(g) ==
    \/ GoRootLock(g)
    \/ GoRootLocked(g)
    \/ GoRootReturn(g)
    \/ GoStringRLock(g)
    \/ GoStringReturn(g)

NextChain ==
    \/ NoneStarted /\ nextVariableId < MaxVars /\ NewTypeVariable
    \/ NoneStarted /\ \E a \in Vars, b \in Vars \cup {Int} : Unify(a, b)
    \/ NoneStarted /\ Return
    \/ \E g \in Goroutines : \E v \in Vars : GoRoot(g, v)
    \/ \E g \in Goroutines : \E v \in Vars : GoString(g, v)
    \/ \E g \in Goroutines : GoStep(g)

SpecChain == Init /\ [][NextChain]_vars

SpecChainFair == SpecChain /\ \A g \in Goroutines : WF_vars(GoStep(g))

TypeOK == nextVariableId <= MaxIds

(***************************************************************************)
(* What the claims speak of.                                               *)
(*   Resolve(t, I): the structure of t with every bound variable replaced  *)
(*   by what it is bound to, all the way down.                             *)
(*   VarsOf(t): the ids of the variables written in t.                     *)
(*   Reaches(i, I): the ids reached from variable i by following Instance  *)
(*   bindings and descending into operator arguments, one step or more.    *)
(***************************************************************************)
RECURSIVE Resolve(_, _)
Resolve(t, I) ==
    IF t.k = "nil" THEN Nil
    ELSE IF t.k = "var"
         THEN IF I[t.id] = Nil THEN t ELSE Resolve(I[t.id], I)
    ELSE TypeOperator(t.name, [i \in 1 .. Len(t.args) |-> Resolve(t.args[i], I)])

StepFrom(S, I) == UNION {VarsOf(I[j]) : j \in S}

RECURSIVE ReachN(_, _, _)
ReachN(S, I, n) ==
    IF n = 0 THEN S
    ELSE ReachN(S \cup StepFrom(S, I), I, n - 1)

Reaches(i, I) == ReachN(StepFrom({i}, I), I, MaxIds)

Bound(I) == {i \in VarIds : I[i] # Nil}

V0 == TypeVariable(0)

V1 == TypeVariable(1)

(* C1: whenever Unify(a, b) returns success, the fully resolved structures  *)
(* of a and b are identical afterwards; in particular a variable unified    *)
(* with Int has Int as its root.                                            *)
C1_UnifyMakesEqual ==
    (last.op = "Unify" /\ last.err = ErrNil) =>
        /\ Resolve(last.a, Instance) = Resolve(last.b, Instance)
        /\ (IsVar(last.a) /\ last.b = Int) => Root(last.a, Instance).r = Int
        /\ (IsVar(last.b) /\ last.a = Int) => Root(last.b, Instance).r = Int

C1_Witness ==
    /\ last.op = "Unify"
    /\ last.err = ErrNil
    /\ last.a = Function(<<V0>>)
    /\ last.b = Function(<<Function(<<V1>>)>>)
    /\ Instance[0] = Function(<<V1>>)
    /\ Instance[1] = Int

(* C2: in every reachable state the instance graph is acyclic: following    *)
(* instance bindings and operator arguments from a variable never comes     *)
(* back to that variable.                                                   *)
C2_Acyclic == \A i \in VarIds : i \notin Reaches(i, Instance)

C2_Witness ==
    /\ last.op = "Unify"
    /\ last.err = ErrRecursive
    /\ Instance[1] = Function(<<V0>>)
    /\ last.a = V0
    /\ last.b = Function(<<V1>>)

(* C10: Root is idempotent: a second Root(v) right after the first returns  *)
(* the same representative and changes no instance binding; after the first *)
(* call a bound v points at the representative directly; the root of an     *)
(* unbound variable is the variable and the root of an operator is the      *)
(* operator.                                                                *)
C10_RootIdempotent ==
    (last.op = "Root") =>
        LET v == last.a
            again == Root(v, Instance)
        IN  /\ again.r = last.res
            /\ again.I = Instance
            /\ (IsVar(v) /\ Instance[v.id] # Nil) => Instance[v.id] = last.res
            /\ (IsVar(v) /\ Instance[v.id] = Nil) => last.res = v
            /\ IsOp(v) => last.res = v
            /\ ~(IsVar(last.res) /\ Instance[last.res.id] # Nil)

C10_Witness ==
    /\ last.op = "Root"
    /\ last.a = V0
    /\ last.res = Int
    /\ Instance[0] = Int
    /\ Instance[1] = Int

ReachOfType(t, I) == ReachN(VarsOf(t), I, MaxIds)

(* C4: when the roots of a and b are both operators whose names differ or   *)
(* whose argument counts differ, Unify(a, b) fails with the type-mismatch   *)
(* error and binds no variable; every error Unify returns is a type         *)
(* mismatch or a recursive unification.                                     *)
C4_Step ==
    (last'.op = "Unify") =>
        LET a1 == Root(last'.a, Instance).r
            b1 == Root(last'.b, Instance).r
        IN  /\ ( /\ IsOp(a1)
                 /\ IsOp(b1)
                 /\ (a1.name # b1.name \/ Len(a1.args) # Len(b1.args)) )
               => /\ last'.err = ErrTypeMismatch
                  /\ Bound(Instance') = Bound(Instance)
            /\ (last'.err # ErrNil /\ last'.err # ErrPanic)
               => last'.err \in {ErrTypeMismatch, ErrRecursive}

C5_Step ==
    (last'.op = "Unify") =>
        LET a1 == Root(last'.a, Instance).r
            b1 == Root(last'.b, Instance).r
        IN  /\ ( /\ IsOp(a1)
                 /\ IsOp(b1)
                 /\ a1.name = b1.name
                 /\ Len(a1.args) = Len(b1.args)
                 /\ last'.err \in {ErrTypeMismatch, ErrRecursive} )
               => \E i \in 1 .. Len(a1.args) :
                     /\ \A j \in 1 .. (i - 1) :
                           Resolve(a1.args[j], Instance')
                             = Resolve(b1.args[j], Instance')
                     /\ UnifyRec(a1.args[i], b1.args[i], Instance').err = last'.err
                     /\ (Bound(Instance') \ Bound(Instance))
                          \subseteq UNION {ReachOfType(a1.args[j], Instance)
                                             \cup ReachOfType(b1.args[j], Instance) :
                                           j \in 1 .. i}
            /\ ( /\ last'.a = Function(<<V0, Int, V1>>)
                 /\ last'.b = Function(<<Int, Float, String>>)
                 /\ Instance[0] = Nil
                 /\ Instance[1] = Nil )
               => /\ last'.err = ErrTypeMismatch
                  /\ Instance'[0] = Int
                  /\ Instance'[1] = Nil

C5_StopsAtFirstFailure == [][C5_Step]_vars

C5_Witness ==
    /\ last.op = "Unify"
    /\ last.a = Function(<<V0, Int, V1>>)
    /\ last.b = Function(<<Int, Float, String>>)
    /\ last.err = ErrTypeMismatch
    /\ Instance[0] = Int
    /\ Instance[1] = Nil

(***************************************************************************)
(*   Shape(t): t with every variable replaced by one placeholder.          *)
(*   StripNil(t): t without its nil arguments.                             *)
(*   Subst(t, m): t with every variable that has an entry in m replaced    *)
(*   by that entry.                                                        *)
(*   NonGenericVars(ng, I): the unbound variables in the resolved          *)
(*   structure of the types of ng.                                         *)
(***************************************************************************)
RECURSIVE Shape(_)
Shape(t) ==
    IF t.k = "var" THEN TypeVariable(0)
    ELSE IF t.k = "op"
         THEN TypeOperator(t.name, [i \in 1 .. Len(t.args) |-> Shape(t.args[i])])
    ELSE Nil

NotNil(t) == t.k # "nil"

RECURSIVE StripNil(_)
StripNil(t) ==
    IF t.k = "op"
    THEN LET kept == SelectSeq(t.args, NotNil)
         IN  TypeOperator(t.name, [i \in 1 .. Len(kept) |-> StripNil(kept[i])])
    ELSE t

RECURSIVE Subst(_, _)
Subst(t, m) ==
    IF t.k = "var" THEN (IF m[t.id] # Nil THEN m[t.id] ELSE t)
    ELSE IF t.k = "op"
         THEN TypeOperator(t.name, [i \in 1 .. Len(t.args) |-> Subst(t.args[i], m)])
    ELSE t

NonGenericVars(ng, I) == UNION {VarsOf(Resolve(ng[i], I)) : i \in 1 .. Len(ng)}

Returned(op) == last.op = op /\ last.err # ErrPanic

(* C3: for an unbound variable v and an operator type T whose resolved      *)
(* structure contains v at any depth, Unify(v, T) and Unify(T, v) fail with *)
(* the recursive-unification error and leave v unbound.                     *)
C3_Case(v, T, I) ==
    /\ IsVar(v)
    /\ I[v.id] = Nil
    /\ IsOp(T)
    /\ v.id \in VarsOf(Resolve(T, I))

C3_Step ==
    ( /\ last'.op = "Unify"
      /\ \/ C3_Case(last'.a, last'.b, Instance)
         \/ C3_Case(last'.b, last'.a, Instance) )
    => /\ last'.err = ErrRecursive
       /\ \A i \in VarIds : Instance[i] = Nil => Instance'[i] = Nil

C3_OccursCheckFails == [][C3_Step]_vars

(* C6: FreshType preserves operator structure: every operator of the        *)
(* result has the name and the number of arguments of the operator it       *)
(* copies, argument by argument.                                            *)
C6_PreservesStructure ==
    Returned("FreshType") =>
        Shape(last.res) = Shape(Resolve(last.a, Instance))

(* C7: within one FreshType call each generic source variable is replaced,  *)
(* everywhere it occurs, by one newly allocated variable, distinct source   *)
(* variables by distinct ones; the new ids were never allocated before the  *)
(* call, so the variables of two calls on the same input are the same       *)
(* within each result, distinct between the results and distinct from the   *)
(* source variables.                                                        *)
Replaced(c) == {i \in VarIds : c.mappings[i] # Nil}

Targets(c) == {c.mappings[i].id : i \in Replaced(c)}

C7_ConsistentFresh ==
    /\ Returned("FreshType") =>
          LET src == Resolve(last.a, Instance)
          IN  /\ StripNil(last.res) = Subst(src, last.mappings)
              /\ \A g \in VarsOf(src) \ NonGenericVars(last.ng, Instance) :
                    g \in Replaced(last)
              /\ \A i \in Replaced(last) :
                    /\ IsVar(last.mappings[i])
                    /\ last.mappings[i].id >= last.next0
                    /\ last.mappings[i].id < nextVariableId
                    /\ Instance[last.mappings[i].id] = Nil
              /\ \A i \in Replaced(last), j \in Replaced(last) :
                    i # j => last.mappings[i] # last.mappings[j]
              /\ Targets(last) \cap VarsOf(last.a) = {}
              /\ \A s \in KeptSites : Targets(fresh[s]) \cap Targets(last) = {}
    /\ \A s \in KeptSites :
          /\ Targets(fresh[s]) \cap VarsOf(fresh[s].a) = {}
          /\ \A r \in KeptSites :
                r # s => Targets(fresh[s]) \cap Targets(fresh[r]) = {}

C7_Witness ==
    /\ KeptSites = CallSites
    /\ fresh["first"].a = Function(<<V0, V0>>)
    /\ fresh["second"].a = Function(<<V0, V0>>)
    /\ fresh["first"].ng = <<>>
    /\ fresh["second"].ng = <<>>
    /\ StripNil(fresh["first"].res) = Function(<<V1, V1>>)
    /\ StripNil(fresh["second"].res) = Function(<<TypeVariable(2), TypeVariable(2)>>)

(* C8: a variable that occurs in the resolved structure of a type of        *)
(* nongeneric is not replaced by FreshType: no fresh variable is allocated  *)
(* for it and it appears in the result as itself.                           *)
C8_NonGenericKept ==
    Returned("FreshType") =>
        LET src == Resolve(last.a, Instance)
        IN  \A g \in NonGenericVars(last.ng, Instance) :
               /\ last.mappings[g] = Nil
               /\ g \in VarsOf(src) => g \in VarsOf(last.res)
               /\ TypeVariable(g) \notin {last.mappings[i] : i \in VarIds}

C8_Witness ==
    /\ Returned("FreshType")
    /\ last.a = Function(<<V0>>)
    /\ last.ng = <<V1>>
    /\ Instance[1] = Function(<<V0>>)
    /\ Instance[0] = Nil
    /\ StripNil(last.res) = Function(<<V0>>)

(* C9: a Unify that binds a fresh variable of a kept FreshType result       *)
(* leaves the generic source variables of the instantiated type unbound,    *)
(* and leaves the fresh variables of every other result of the same type    *)
(* unbound.                                                                 *)
Listed(c) == UNION {VarsOf(c.ng[i]) : i \in 1 .. Len(c.ng)}

FreshOnes(c) == VarsOf(c.res) \ Listed(c)

GenericSources(c) == VarsOf(c.a) \ Listed(c)

StaysUnbound(S) == \A i \in S : Instance[i] = Nil => Instance'[i] = Nil

C9_Step ==
    (last'.op = "Unify" /\ IsVar(last'.a)) =>
        \A s \in KeptSites :
            ( /\ last'.a.id \in FreshOnes(fresh[s])
              /\ Instance[last'.a.id] = Nil
              /\ Instance'[last'.a.id] # Nil )
            => /\ StaysUnbound(GenericSources(fresh[s]))
               /\ \A r \in KeptSites :
                     (r # s /\ fresh[r].a = fresh[s].a)
                     => StaysUnbound(FreshOnes(fresh[r]))

C9_InstancesIndependent == [][C9_Step]_vars

C9_Witness ==
    /\ KeptSites = CallSites
    /\ fresh["first"].a = Function(<<V0, V0>>)
    /\ fresh["second"].a = Function(<<V0, V0>>)
    /\ last.op = "Unify"
    /\ last.a = V1
    /\ last.b = Int
    /\ Instance[1] = Int
    /\ Instance[0] = Nil
    /\ Instance[2] = Nil
    /\ 1 \in FreshOnes(fresh["first"])
    /\ 2 \in FreshOnes(fresh["second"])

(***************************************************************************)
(*   ChainN(t, I, n): the types met by following Instance bindings from t, *)
(*   at most n of them.                                                    *)
(*   ChainVars(t, I): the ids of the bound variables on that chain, t      *)
(*   included.                                                             *)
(*   Canon(t, I): the resolved structure of t with every unbound variable  *)
(*   replaced by the least id of its equivalence class (the variables      *)
(*   with the same representative).                                        *)
(***************************************************************************)
RECURSIVE ChainN(_, _, _)
ChainN(t, I, n) ==
    IF n = 0 \/ t.k # "var" THEN {}
    ELSE IF I[t.id] = Nil THEN {}
    ELSE {I[t.id]} \cup ChainN(I[t.id], I, n - 1)

Chain(t, I) == ChainN(t, I, MaxIds)

ChainVars(t, I) ==
    {i \in VarIds :
        /\ I[i] # Nil
        /\ TypeVariable(i) \in ({t} \cup Chain(t, I))}

ClassOf(j, I) == {i \in VarIds : RootNoCompress(TypeVariable(i), I).r = TypeVariable(j)}

ClassRep(j, I) == CHOOSE i \in ClassOf(j, I) : \A k \in ClassOf(j, I) : i <= k

RECURSIVE CanonOf(_, _)
CanonOf(t, I) ==
    IF t.k = "var" THEN TypeVariable(ClassRep(t.id, I))
    ELSE IF t.k = "op"
         THEN TypeOperator(t.name, [i \in 1 .. Len(t.args) |-> CanonOf(t.args[i], I)])
    ELSE t

Canon(t, I) == CanonOf(Resolve(t, I), I)

(* C11: Unify(t, t) succeeds for every type t, and binds no variable that   *)
(* was unbound before the call.                                             *)
C11_Step ==
    (last'.op = "Unify" /\ last'.a = last'.b) =>
        /\ last'.err = ErrNil
        /\ Bound(Instance') = Bound(Instance)

C11_Reflexive == [][C11_Step]_vars

(* C12: Equals(t1, t2) is true exactly when the structures of t1 and t2     *)
(* with every bound variable resolved are identical: a variable bound to    *)
(* Int equals Int, two variables bound to the same type are equal, two      *)
(* distinct unbound variables are not.                                      *)
C12_EqualsResolved ==
    (last.op = "Equals") =>
        (last.res <=> (Resolve(last.a, Instance) = Resolve(last.b, Instance)))

(* C16: a bound variable is never unbound again and is never bound to       *)
(* something else: after every call it still resolves to what its instance  *)
(* resolved to (its instance field changes by path compression only), so    *)
(* Unify binds only variables that are unbound, and these are roots of its  *)
(* arguments; a variable whose root is an operator keeps that operator as   *)
(* its root after every call.                                               *)
C16_Step ==
    /\ \A i \in VarIds :
          LET v == TypeVariable(i)
              before == RootNoCompress(v, Instance).r
          IN  /\ Instance[i] # Nil =>
                    /\ Instance'[i] # Nil
                    /\ Resolve(Instance[i], Instance') = Resolve(v, Instance')
                    /\ \/ Instance'[i] = Instance[i]
                       \/ Instance'[i] = RootNoCompress(v, Instance').r
                       \/ Instance'[i] \in Chain(v, Instance)
              /\ IsOp(before) => RootNoCompress(v, Instance').r = before
    /\ (last'.op = "Unify") =>
          \A i \in Bound(Instance') \ Bound(Instance) :
              TypeVariable(i) \in {RootNoCompress(last'.a, Instance).r,
                                   RootNoCompress(last'.b, Instance).r}
                                  \cup {TypeVariable(j) :
                                          j \in ReachOfType(last'.a, Instance)
                                                \cup ReachOfType(last'.b, Instance)}

C16_NeverUnbound == [][C16_Step]_vars

C16_Witness ==
    /\ last.op = "Unify"
    /\ last.a = V0
    /\ last.b = Float
    /\ last.err = ErrTypeMismatch
    /\ Instance[0] = Int

(* C19: Root(t) changes only the instance fields of the bound variables on  *)
(* the chain from t and sets each to the representative it returns; it      *)
(* binds no unbound variable, changes no variable off the chain and leaves  *)
(* the resolved structure of every variable as it was.                      *)
C19_Step ==
    (last'.op = "Root") =>
        LET t == last'.a
            onChain == ChainVars(t, Instance)
        IN  /\ last'.res = RootNoCompress(t, Instance).r
            /\ \A i \in VarIds :
                  /\ i \in onChain => Instance'[i] = last'.res
                  /\ i \notin onChain => Instance'[i] = Instance[i]
                  /\ Resolve(TypeVariable(i), Instance')
                       = Resolve(TypeVariable(i), Instance)

C19_RootFrame == [][C19_Step]_vars

C19_Witness ==
    /\ last.op = "Root"
    /\ last.a = V1
    /\ last.res = Function(<<Int>>)
    /\ Instance[1] = Function(<<Int>>)
    /\ Instance[0] = Function(<<V1>>)

(* C20: Unify is symmetric in its outcome: from the same state Unify(a, b)  *)
(* and Unify(b, a) both succeed or both fail with the same kind of error,   *)
(* and when they succeed they leave the same equivalence classes of         *)
(* variables and the same resolved structure for each class, up to the      *)
(* choice of representative.                                                *)
C20_Step ==
    (last'.op = "Unify") =>
        LET swapped == UnifyRec(last'.b, last'.a, Instance)
        IN  /\ last'.err = swapped.err
            /\ (last'.err = ErrNil) =>
                  \A i \in VarIds :
                      Canon(TypeVariable(i), Instance')
                        = Canon(TypeVariable(i), swapped.I)

C20_Symmetric == [][C20_Step]_vars

C20_Witness ==
    /\ last.op = "Unify"
    /\ last.a = V0
    /\ last.b = V1
    /\ last.err = ErrNil
    /\ Instance[0] = V1
    /\ UnifyRec(V1, V0, [Instance EXCEPT ![0] = Nil]).I[1] = V0

(***************************************************************************)
(*   PreOrder(re): the nodes of re in depth-first pre-order.               *)
(*   FirstCapture(re, n): the first capture node numbered n in that order, *)
(*   NilRegexp when there is none.                                         *)
(*   RunesIn(g): every rune of every literal and of every range of every   *)
(*   character class in the sub-tree g.                                    *)
(*   OnlyMatches(g, s): g is built from literals, classes, repetitions,    *)
(*   captures, concatenations and alternations only, and every rune in it  *)
(*   is a rune of s.                                                       *)
(***************************************************************************)
RECURSIVE PreOrder(_)
RECURSIVE PreOrderSub(_, _)
PreOrderSub(sub, i) ==
    IF i > Len(sub) THEN <<>>
    ELSE PreOrder(sub[i]) \o PreOrderSub(sub, i + 1)

PreOrder(re) == <<re>> \o PreOrderSub(re.Sub, 1)

IsCapture(x, n) == x.Op = OpCapture /\ x.Cap = n

CapturesAt(re, n) == {i \in 1 .. Len(PreOrder(re)) : IsCapture(PreOrder(re)[i], n)}

FirstCapture(re, n) ==
    IF CapturesAt(re, n) = {} THEN NilRegexp
    ELSE PreOrder(re)[CHOOSE i \in CapturesAt(re, n) :
                         \A j \in CapturesAt(re, n) : i <= j]

NodeRunes(x) ==
    IF x.Op = OpLiteral THEN {x.Rune[i] : i \in 1 .. Len(x.Rune)}
    ELSE IF x.Op = OpCharClass
    THEN UNION {x.Rune[2 * k - 1] .. x.Rune[2 * k] : k \in 1 .. (Len(x.Rune) \div 2)}
    ELSE {}

RunesIn(g) == UNION {NodeRunes(PreOrder(g)[i]) : i \in 1 .. Len(PreOrder(g))}

OpsIn(g) == {PreOrder(g)[i].Op : i \in 1 .. Len(PreOrder(g))}

RunesOf(s) == {s[i] : i \in 1 .. Len(s)}

OnlyMatches(g, s) ==
    /\ OpsIn(g) \subseteq {OpLiteral, OpCharClass, OpStar, OpPlus, OpRepeat,
                            OpQuest, OpCapture, OpConcat, OpAlternate}
    /\ RunesIn(g) \subseteq RunesOf(s)

Classified(g) ==
    IF OnlyMatches(g, IntRunes) THEN Int
    ELSE IF OnlyMatches(g, FloatRunes) THEN Float
    ELSE Int

(* C14: for an existing capture group inferCaprefType returns Int when      *)
(* every rune of every literal and class range of the group is in           *)
(* "+-0123456789" and the group has no node of another kind, otherwise      *)
(* Float when the same holds for "+-0123456789.eE", otherwise Int; so the   *)
(* result is Float only when the group has one of '.', 'e', 'E' and nothing *)
(* outside the float runes, and it is never String.                         *)
C14_Classification ==
    (regex.pc = "return" /\ CapturesAt(regex.re, regex.cap) # {}) =>
        LET g == FirstCapture(regex.re, regex.cap)
        IN  /\ regex.res = Classified(g)
            /\ regex.res \in {Int, Float}
            /\ regex.res # String
            /\ (regex.res = Float) =>
                  /\ RunesIn(g) \cap {46, 101, 69} # {}
                  /\ RunesIn(g) \subseteq RunesOf(FloatRunes)

C14_Witness ==
    /\ regex.pc = "return"
    /\ regex.cap = 1
    /\ regex.re = Capture(1, Concat(<<Plus(Digits), Dot, Plus(Digits)>>))
    /\ regex.res = Float

(* C15: inferCaprefType returns None exactly when the tree has no capture   *)
(* node with the requested number; when it has one, at any depth, the       *)
(* result is the classification of the first such node in depth-first       *)
(* pre-order.                                                               *)
C15_NoneIffAbsent ==
    (regex.pc = "return") =>
        /\ (regex.res = None) <=> (CapturesAt(regex.re, regex.cap) = {})
        /\ (CapturesAt(regex.re, regex.cap) # {}) =>
              regex.res = Classified(FirstCapture(regex.re, regex.cap))

C15_Witness ==
    /\ regex.pc = "return"
    /\ regex.cap = 2
    /\ regex.re = Capture(1, Concat(<<Lower, Capture(2, Concat(<<Plus(Digits), Dot>>))>>))
    /\ regex.res = Float

(* C13: under every interleaving of NewTypeVariable calls, those made by    *)
(* FreshType included, the ids read from the counter are 0, 1, 2, ... in    *)
(* the order the goroutines acquired it: strictly increasing, none skipped, *)
(* none issued twice; so every variable returned has an id no other         *)
(* returned variable has.                                                   *)
ReturnedIds(g) == {goroutine[g].own[k] : k \in 1 .. Len(goroutine[g].own)}

C13_UniqueIds ==
    /\ \A k \in 1 .. Len(issued) : issued[k].id = k - 1
    /\ \A g \in Goroutines :
          /\ Cardinality(ReturnedIds(g)) = Len(goroutine[g].own)
          /\ \A h \in Goroutines \ {g} : ReturnedIds(g) \cap ReturnedIds(h) = {}
          /\ \A k \in 1 .. Len(goroutine[g].own) :
                \E n \in 1 .. Len(issued) :
                    issued[n] = [g |-> g, id |-> goroutine[g].own[k]]
    /\ nextVariableId \in {Len(issued), Len(issued) - 1}
    /\ (\A g \in Goroutines : goroutine[g].pc # "increment")
          => nextVariableId = Len(issued)

C13_Witness ==
    /\ issued = <<[g |-> "g1", id |-> 0], [g |-> "g1", id |-> 1],
                  [g |-> "g2", id |-> 2], [g |-> "g1", id |-> 3]>>
    /\ goroutine["g1"].op = "FreshType"
    /\ goroutine["g1"].pc = "idle"
    /\ goroutine["g1"].a = Function(<<V0, V0>>)
    /\ goroutine["g1"].res = TypeOperator("->", <<Nil, Nil, TypeVariable(3), TypeVariable(3)>>)
    /\ goroutine["g2"].res = TypeVariable(2)
    /\ goroutine["g1"].own = <<0, 1, 3>>

(* C17: under every interleaving of two Unify calls that share unbound      *)
(* variables the instance graph stays acyclic, and a variable one call has  *)
(* bound is not bound again by the other: its instance changes by path      *)
(* compression only.  Unify(a, b) together with Unify(b, a) never leaves a  *)
(* bound to b and b bound to a.                                             *)
Acyclic(I) == \A i \in VarIds : i \notin Reaches(i, I)

NotRebound(i) ==
    Instance[i] # Nil =>
        \/ Instance'[i] = Instance[i]
        \/ Instance'[i] \in Chain(TypeVariable(i), Instance)

C17_Step ==
    /\ Acyclic(Instance')
    /\ \A i \in VarIds : NotRebound(i)

C17_RaceFree == [][C17_Step]_vars

C17_Cycle ==
    /\ goroutine["g1"].a = V0
    /\ goroutine["g1"].b = V1
    /\ goroutine["g2"].a = V1
    /\ goroutine["g2"].b = V0
    /\ Instance[0] = V1
    /\ Instance[1] = V0

C17_Rebound ==
    /\ goroutine["g1"].a = V0
    /\ goroutine["g1"].b = Int
    /\ goroutine["g1"].pc = "done"
    /\ goroutine["g2"].a = V0
    /\ goroutine["g2"].b = Float
    /\ goroutine["g2"].pc = "done"
    /\ goroutine["g1"].err = ErrNil
    /\ goroutine["g2"].err = ErrNil
    /\ Instance[0] = Float

(* C18: on an acyclic chain of bound variables every interleaving of Root   *)
(* and String calls is free of deadlock and every call returns; every Root  *)
(* call returns the representative of its variable and every String call    *)
(* the rendering of that representative; the calls change no variable's     *)
(* representative.                                                          *)
Running(g) == goroutine[g].pc \notin {"idle", "done"}

Blocked(g) ==
    \/ goroutine[g].pc \in {"Lock", "RLock"} /\ ~WriterFree(instanceMu[goroutine[g].cur])
    \/ goroutine[g].pc = "pending" /\ ~NoReaders(instanceMu[goroutine[g].cur])

Representative(t) == RootNoCompress(t, Instance).r

C18_Returned(g) ==
    (goroutine[g].pc = "done") =>
        /\ (goroutine[g].op = "Root") => goroutine[g].res = Representative(goroutine[g].a)
        /\ (goroutine[g].op = "String") =>
              goroutine[g].str = TypeString(Representative(goroutine[g].a), Instance)

C18_State ==
    /\ Acyclic(Instance)
    /\ (\E g \in Goroutines : Running(g))
          => (\E g \in Goroutines : Running(g) /\ ~Blocked(g))
    /\ \A g \in Goroutines : C18_Returned(g)

C18_Step ==
    (\E g \in Goroutines : Running(g)) =>
        \A i \in VarIds :
            RootNoCompress(TypeVariable(i), Instance').r
              = RootNoCompress(TypeVariable(i), Instance).r

C18_RootAndString ==
    /\ []C18_State
    /\ [][C18_Step]_vars
    /\ \A g \in Goroutines : Running(g) ~> (goroutine[g].pc = "done")

C18_Witness ==
    /\ goroutine["g1"].op = "Root"
    /\ goroutine["g1"].a = V0
    /\ goroutine["g1"].pc = "return"
    /\ goroutine["g1"].res = Int
    /\ goroutine["g1"].stack = <<Frame(0, TRUE)>>
    /\ Instance[0] = V1
    /\ Instance[1] = Int
    /\ goroutine["g2"].op = "String"
    /\ goroutine["g2"].a = V1
    /\ goroutine["g2"].pc = "done"
    /\ goroutine["g2"].str = <<"Int">>

====
